---- MODULE Spec2Model ----
(***************************************************************************)
(* A model of one Polly instance (packages/@pollyjs/core/src/polly.ts):    *)
(* its mode, its paused-mode snapshot, its container, its running adapters *)
(* and persister, its tracked requests and its suspended stop() calls.     *)
(*                                                                         *)
(* Synchronous methods are single actions.  The asynchronous stop() is one *)
(* action per run-to-suspension segment: the call up to its first await,   *)
(* and each resumption.                                                    *)
(*                                                                         *)
(* A call that throws keeps every assignment it made before the throw and  *)
(* records the error in `result`.                                          *)
(***************************************************************************)
EXTENDS Naturals, Sequences, FiniteSets

\* ------------------------------------------------------------------ bounds

\* Adapter instances constructed over the life of the instance.
MaxInstances == 3
\* Requests registered over the life of the instance.
MaxRequests == 2
\* stop() calls issued over the life of the instance.
MaxStops == 2
\* flush() calls issued over the life of the instance.
MaxFlushes == 2
\* static register() calls of one factory that are not yet undone
MaxSubscriptions == 2
\* instances constructed after the first one
MaxBuilt == 2

\* ------------------------------------------------------------------ values

\* MODES of @pollyjs/utils, as the keys polly.ts uses (ValidMode).
Modes == {"RECORD", "REPLAY", "PASSTHROUGH", "STOPPED"}

\* The values callers pass as a mode; "record" is a non-canonical spelling.
ModeInputs == {"RECORD", "STOPPED", "record"}

Absent == "absent"
Undefined == "undefined"
NoError == "none"

AdapterNames == {"a", "b"}

\* nameOrFactory: a string name, or a factory (a function with a name and a
\* capability type).
ByName(n) == [kind |-> "name", type |-> "adapter", name |-> n]
AdapterFactory(n) == [kind |-> "factory", type |-> "adapter", name |-> n]
PersisterByName(n) == [kind |-> "name", type |-> "persister", name |-> n]
PersisterFactory(n) == [kind |-> "factory", type |-> "persister", name |-> n]
NoPersister == [kind |-> Absent, type |-> "persister", name |-> Absent]

\* The factories static register() and unregister() are called with.
Factories == {AdapterFactory("a"), AdapterFactory("b"), PersisterFactory("p")}

NameOrFactoryInputs ==
  {ByName(n) : n \in AdapterNames} \cup {AdapterFactory("b")}

\* The adapter lists a configuration may carry.
AdapterLists ==
  { <<>>, <<ByName("a")>>, <<ByName("a"), ByName("b")>> }

\* A configuration object: each field is supplied or absent.  `adapters` is
\* <<>> when absent and <<list>> when supplied.
ConfigInputs ==
  [ mode : ModeInputs \cup {Absent},
    adapters : {<<>>} \cup { <<l>> : l \in AdapterLists },
    persister : {NoPersister, PersisterByName("p")} ]

\* The containers a new instance can have after the 'register' event: the
\* factories installed by earlier static register() calls.
ContainerInits ==
  { {<<"adapter", "a">>, <<"persister", "p">>} }

VARIABLES
  mode,             \* this.config.mode
  cfgAdapters,      \* this.config.adapters
  cfgPersister,     \* this.config.persister
  paused,           \* this[PAUSED_MODE]
  container,        \* this.container: the registered "<capability>:<name>" keys
  adapters,         \* this.adapters: Map in insertion order, <<[name, id], ...>>
  instances,        \* every adapter instance ever constructed: its name and
                    \* how often its disconnect hook ran (connect ran once)
  persister,        \* this.persister: the persister's name, or "null"
  requests,         \* this._requests: the completion state of each request
  loggerDisconnects,\* calls of this.logger.disconnect()
  persistCalls,     \* calls of this.persister.persist()
  stopEvents,       \* broadcasts of the 'stop' event
  stops,            \* the stop() calls issued: each one's position and trace
  flushes,          \* the flush() calls issued: the requests each one awaits
                    \* and its position
  memo,             \* FACTORY_REGISTRATION: the factories with a callback
  subscriptions,    \* EVENT_EMITTER: per factory, how many times its callback
                    \* is subscribed to 'register'
  built,            \* the instances constructed later: each one's container
                    \* before and after its initial configure()
  hooks,            \* the adapter hooks the last synchronous segment invoked
  result            \* the last call: its name and the error it threw

vars ==
  << mode, cfgAdapters, cfgPersister, paused, container, adapters, instances,
     persister, requests, loggerDisconnects, persistCalls, stopEvents, stops,
     flushes, memo, subscriptions, built, hooks, result >>

\* The process-wide registration state and the instances built from it.
Registry == << memo, subscriptions, built >>

\* ------------------------------------------------- the instance as a record

\* The fields the synchronous methods read and write.
Cur ==
  [ mode |-> mode, cfgAdapters |-> cfgAdapters, cfgPersister |-> cfgPersister,
    paused |-> paused, container |-> container, adapters |-> adapters,
    instances |-> instances, persister |-> persister,
    nrequests |-> Len(requests), hooks |-> <<>>, err |-> NoError ]

Apply(r, op) ==
  /\ mode' = r.mode
  /\ cfgAdapters' = r.cfgAdapters
  /\ cfgPersister' = r.cfgPersister
  /\ paused' = r.paused
  /\ container' = r.container
  /\ adapters' = r.adapters
  /\ instances' = r.instances
  /\ persister' = r.persister
  /\ hooks' = r.hooks
  /\ result' = [op |-> op, err |-> r.err]

Throw(s, e) == [s EXCEPT !.err = e]

\* ------------------------------------------------------------ mode setter

\* set mode(mode): the first argument of assert() is a template literal that
\* reads `uppercaseMode`, an identifier declared nowhere in the module, so
\* evaluating it throws a ReferenceError before assert() is entered and before
\* the assignment to this.config.mode.
ModeSetter(s, m) == Throw(s, "ReferenceError")

\* --------------------------------------------------------------- adapters

Key(cap, name) == <<cap, name>>

\* container.register(factory): installs the factory under "<type>:<name>".
ContainerRegister(c, factory) == c \cup {Key(factory.type, factory.name)}

HasAdapter(s, name) == \E i \in 1..Len(s.adapters) : s.adapters[i].name = name

AdapterIndex(s, name) ==
  CHOOSE i \in 1..Len(s.adapters) : s.adapters[i].name = name

Remove(seq, i) == SubSeq(seq, 1, i - 1) \o SubSeq(seq, i + 1, Len(seq))

\* disconnectFrom(nameOrFactory)
DisconnectFrom(s, nf) ==
  IF HasAdapter(s, nf.name)
  THEN LET i == AdapterIndex(s, nf.name)
           id == s.adapters[i].id
       IN [s EXCEPT
             !.instances[id].disconnects = @ + 1,
             !.hooks = Append(@, [op |-> "disconnect", id |-> id]),
             !.adapters = Remove(@, i)]
  ELSE s

\* A disconnect() whose iterator skips the entry after each one it deletes,
\* as an index-based loop over a shrinking list would.
RECURSIVE DisconnectSkipping(_)
DisconnectSkipping(s) ==
  IF s.adapters = <<>> THEN s
  ELSE LET s1 == DisconnectFrom(s, ByName(s.adapters[1].name))
           rest == DisconnectSkipping([s1 EXCEPT !.adapters = Tail(@)])
       IN IF s1.adapters = <<>> THEN s1
          ELSE [rest EXCEPT !.adapters = <<s1.adapters[1]>> \o @]

\* disconnect(): the Map's key iterator is live, and every key it has yielded
\* has been deleted, so each step yields the first remaining entry.
RECURSIVE Disconnect(_)
Disconnect(s) ==
  IF s.adapters = <<>> THEN s
  ELSE Disconnect(DisconnectFrom(s, ByName(s.adapters[1].name)))

\* A connectTo() that does not disconnect the instance it replaces.
ConnectToKeepsOld(s, nf) ==
  LET s1 == IF nf.kind = "factory"
            THEN [s EXCEPT !.container = ContainerRegister(@, nf)]
            ELSE s
  IN IF Key("adapter", nf.name) \notin s1.container
     THEN Throw(s1, "LookupError")
     ELSE LET id == Len(s1.instances) + 1
              kept == SelectSeq(s1.adapters, LAMBDA e : e.name # nf.name)
          IN [s1 EXCEPT
                !.instances = Append(@, [name |-> nf.name, disconnects |-> 0]),
                !.hooks = Append(@, [op |-> "connect", id |-> id]),
                !.adapters = Append(kept, [name |-> nf.name, id |-> id])]

\* A connectTo() that connects the new instance before it disconnects the old.
ConnectToConnectsFirst(s, nf) ==
  LET s1 == IF nf.kind = "factory"
            THEN [s EXCEPT !.container = ContainerRegister(@, nf)]
            ELSE s
  IN IF Key("adapter", nf.name) \notin s1.container
     THEN Throw(s1, "LookupError")
     ELSE LET id == Len(s1.instances) + 1
              s2 == [s1 EXCEPT
                       !.instances = Append(@, [name |-> nf.name, disconnects |-> 0]),
                       !.hooks = Append(@, [op |-> "connect", id |-> id])]
              s3 == DisconnectFrom(s2, ByName(nf.name))
          IN [s3 EXCEPT !.adapters = Append(@, [name |-> nf.name, id |-> id])]

\* A connectTo() without the assertion: the lookup of a missing factory
\* yields nothing to construct, after the old instance was disconnected.
ConnectToUnchecked(s, nf) ==
  LET s1 == IF nf.kind = "factory"
            THEN [s EXCEPT !.container = ContainerRegister(@, nf)]
            ELSE s
      s2 == DisconnectFrom(s1, ByName(nf.name))
      id == Len(s2.instances) + 1
  IN IF Key("adapter", nf.name) \notin s1.container
     THEN Throw(s2, "TypeError")
     ELSE [s2 EXCEPT
             !.instances = Append(@, [name |-> nf.name, disconnects |-> 0]),
             !.hooks = Append(@, [op |-> "connect", id |-> id]),
             !.adapters = Append(@, [name |-> nf.name, id |-> id])]

\* connectTo(nameOrFactory)
ConnectTo(s, nf) ==
  LET s1 == IF nf.kind = "factory"
            THEN [s EXCEPT !.container = ContainerRegister(@, nf)]
            ELSE s
  IN IF Key("adapter", nf.name) \notin s1.container
     THEN Throw(s1, "LookupError")
     ELSE LET s2 == DisconnectFrom(s1, ByName(nf.name))
              id == Len(s2.instances) + 1
          IN [s2 EXCEPT
                !.instances = Append(@, [name |-> nf.name, disconnects |-> 0]),
                !.hooks = Append(@, [op |-> "connect", id |-> id]),
                !.adapters = Append(@, [name |-> nf.name, id |-> id])]

\* this.config.adapters.forEach(adapter => this.connectTo(adapter)): the first
\* connectTo that throws ends the loop.
RECURSIVE ConnectAll(_, _)
ConnectAll(s, list) ==
  IF list = <<>> \/ s.err # NoError THEN s
  ELSE ConnectAll(ConnectTo(s, Head(list)), Tail(list))

\* -------------------------------------------------------------- configure

\* mergeConfigs(DefaultConfig, this.config, config): later layers win on
\* scalars, a list is replaced wholesale by the most specific layer that
\* defines it.  The defaults are mode REPLAY, no adapters, no persister.
MergeConfigs(s, cfg) ==
  [s EXCEPT
     !.mode = IF cfg.mode # Absent THEN cfg.mode
              ELSE IF s.mode # Absent THEN s.mode ELSE "REPLAY",
     !.cfgAdapters = IF cfg.adapters # <<>> THEN cfg.adapters[1] ELSE @,
     !.cfgPersister = IF cfg.persister.kind # Absent THEN cfg.persister ELSE @]

\* The persister part of configure().
HandlePersister(s) ==
  IF s.cfgPersister.kind = Absent THEN s
  ELSE LET s1 == IF s.cfgPersister.kind = "factory"
                 THEN [s EXCEPT !.container = ContainerRegister(@, s.cfgPersister)]
                 ELSE s
       IN IF Key("persister", s.cfgPersister.name) \notin s1.container
          THEN Throw(s1, "LookupError")
          ELSE [s1 EXCEPT !.persister = s.cfgPersister.name]

\* A configure() that lost its second assertion.
ConfigureOpAllowsStopped(s, cfg) ==
  IF s.nrequests # 0 THEN Throw(s, "ValidationError")
  ELSE LET s1 == Disconnect(s)
           s2 == MergeConfigs(s1, cfg)
           s3 == ConnectAll(s2, s2.cfgAdapters)
       IN IF s3.err # NoError THEN s3 ELSE HandlePersister(s3)

\* A configure() that lost its first assertion.
ConfigureOpUnguarded(s, cfg) ==
  IF s.mode = "STOPPED" THEN Throw(s, "ValidationError")
  ELSE LET s1 == Disconnect(s)
           s2 == MergeConfigs(s1, cfg)
           s3 == ConnectAll(s2, s2.cfgAdapters)
       IN IF s3.err # NoError THEN s3 ELSE HandlePersister(s3)

\* A configure() that keeps the adapters connected before the call.
ConfigureOpKeepsAdapters(s, cfg) ==
  IF s.nrequests # 0 THEN Throw(s, "ValidationError")
  ELSE IF s.mode = "STOPPED" THEN Throw(s, "ValidationError")
  ELSE LET s2 == MergeConfigs(s, cfg)
           s3 == ConnectAll(s2, s2.cfgAdapters)
       IN IF s3.err # NoError THEN s3 ELSE HandlePersister(s3)

\* A configure() that disconnects before it checks its preconditions.
ConfigureOpDisconnectsFirst(s, cfg) ==
  LET s1 == Disconnect(s)
  IN IF s1.nrequests # 0 THEN Throw(s1, "ValidationError")
     ELSE IF s1.mode = "STOPPED" THEN Throw(s1, "ValidationError")
     ELSE LET s2 == MergeConfigs(s1, cfg)
              s3 == ConnectAll(s2, s2.cfgAdapters)
          IN IF s3.err # NoError THEN s3 ELSE HandlePersister(s3)

\* configure(config)
ConfigureOp(s, cfg) ==
  IF s.nrequests # 0 THEN Throw(s, "ValidationError")
  ELSE IF s.mode = "STOPPED" THEN Throw(s, "ValidationError")
  ELSE LET s1 == Disconnect(s)
           s2 == MergeConfigs(s1, cfg)
           s3 == ConnectAll(s2, s2.cfgAdapters)
       IN IF s3.err # NoError THEN s3 ELSE HandlePersister(s3)

\* ------------------------------------------------------------ construction

\* The fields the constructor sets before it calls configure(config);
\* this.config is the config passed in.
Fresh(c0, cfg) ==
  [ mode |-> cfg.mode,
    cfgAdapters |-> IF cfg.adapters # <<>> THEN cfg.adapters[1] ELSE <<>>,
    cfgPersister |-> cfg.persister,
    paused |-> Undefined, container |-> c0, adapters |-> <<>>,
    instances |-> <<>>, persister |-> "null", nrequests |-> 0,
    hooks |-> <<>>, err |-> NoError ]

\* new Polly(name, config), for the constructions that do not throw.
Constructed ==
  { r \in { ConfigureOp(Fresh(c0, cfg), cfg) : c0 \in ContainerInits, cfg \in ConfigInputs } :
      r.err = NoError }

Init ==
  /\ \E r \in Constructed :
       /\ mode = r.mode
       /\ cfgAdapters = r.cfgAdapters
       /\ cfgPersister = r.cfgPersister
       /\ paused = r.paused
       /\ container = r.container
       /\ adapters = r.adapters
       /\ instances = r.instances
       /\ persister = r.persister
       /\ hooks = r.hooks
  /\ requests = <<>>
  /\ loggerDisconnects = 0
  /\ persistCalls = 0
  /\ stopEvents = 0
  /\ stops = <<>>
  /\ flushes = <<>>
  /\ memo = { f \in Factories : Key(f.type, f.name) \in container }
  /\ subscriptions = [f \in Factories |-> IF f \in memo THEN 1 ELSE 0]
  /\ built = <<>>
  /\ result = [op |-> "new", err |-> NoError]

Others ==
  << requests, loggerDisconnects, persistCalls, stopEvents, stops, flushes,
     Registry >>

\* --------------------------------------------------------------- actions

Configure(cfg) ==
  LET r == ConfigureOp(Cur, cfg)
  IN /\ Len(r.instances) <= MaxInstances
     /\ Apply(r, "configure")
     /\ UNCHANGED Others

\* connectTo(nameOrFactory)
ConnectToCall(nf) ==
  LET r == ConnectTo(Cur, nf)
  IN /\ Len(r.instances) <= MaxInstances
     /\ Apply(r, "connectTo")
     /\ UNCHANGED Others

\* disconnectFrom(nameOrFactory)
DisconnectFromCall(nf) ==
  /\ Apply(DisconnectFrom(Cur, nf), "disconnectFrom")
  /\ UNCHANGED Others

\* disconnect()
DisconnectCall ==
  /\ Apply(Disconnect(Cur), "disconnect")
  /\ UNCHANGED Others

\* polly.mode = m
SetMode(m) ==
  /\ Apply(ModeSetter(Cur, m), "setMode")
  /\ UNCHANGED Others

\* record()
Record ==
  /\ Apply(ModeSetter(Cur, "RECORD"), "record")
  /\ UNCHANGED Others

\* replay()
Replay ==
  /\ Apply(ModeSetter(Cur, "REPLAY"), "replay")
  /\ UNCHANGED Others

\* pause(): the snapshot is written before the setter runs.
PauseOp(s) == ModeSetter([s EXCEPT !.paused = s.mode], "PASSTHROUGH")

Pause ==
  /\ Apply(PauseOp(Cur), "pause")
  /\ UNCHANGED Others

\* play(): a mode name is a non-empty string, so the snapshot is truthy
\* exactly when it is set; the delete runs only if the setter returned.
PlayOp(s) ==
  IF s.paused # Undefined
  THEN LET s1 == ModeSetter(s, s.paused)
       IN IF s1.err # NoError THEN s1 ELSE [s1 EXCEPT !.paused = Undefined]
  ELSE s

Play ==
  /\ Apply(PlayOp(Cur), "play")
  /\ UNCHANGED Others

\* registerRequest(request): the request's promise starts pending.
RegisterRequest ==
  /\ Len(requests) < MaxRequests
  /\ requests' = Append(requests, "pending")
  /\ hooks' = <<>>
  /\ result' = [op |-> "registerRequest", err |-> NoError]
  /\ UNCHANGED << mode, cfgAdapters, cfgPersister, paused, container, adapters,
                  instances, persister, loggerDisconnects, persistCalls,
                  stopEvents, stops, flushes, Registry >>

\* stop(), up to its first await.  With mode STOPPED the body is skipped and
\* the returned promise is resolved.  Otherwise the adapters and the logger
\* are disconnected, persist() is called if a persister exists, and the call
\* suspends on `await` (also when the awaited value is null).
Stop ==
  /\ Len(stops) < MaxStops
  /\ IF mode = "STOPPED"
     THEN /\ stops' = Append(stops, [pc |-> "resolved", persist |-> "none",
                                     err |-> NoError, trace |-> <<>>])
          /\ hooks' = <<>>
          /\ UNCHANGED << adapters, instances, loggerDisconnects, persistCalls >>
     ELSE LET s1 == Disconnect(Cur)
              called == persister # "null"
          IN /\ adapters' = s1.adapters
             /\ instances' = s1.instances
             /\ hooks' = s1.hooks
             /\ loggerDisconnects' = loggerDisconnects + 1
             /\ persistCalls' = IF called THEN persistCalls + 1 ELSE persistCalls
             /\ stops' = Append(stops,
                  [pc |-> "awaitPersist",
                   persist |-> IF called THEN "pending" ELSE "none",
                   err |-> NoError,
                   trace |-> <<"disconnect", "loggerDisconnect">>
                             \o (IF called THEN <<"persist">> ELSE <<>>)])
  /\ result' = [op |-> "stop", err |-> NoError]
  /\ UNCHANGED << mode, cfgAdapters, cfgPersister, paused, container, persister,
                  requests, stopEvents, flushes, Registry >>

\* A stop() that sets STOPPED and reports the persist failure, as a
\* try/finally around the await would.
AfterPersistFlipsAlways(s, outcome) ==
  IF outcome = "rejected"
  THEN [mode |-> "STOPPED", err |-> "PersistenceFailure", emitted |-> FALSE]
  ELSE [mode |-> "STOPPED", err |-> NoError, emitted |-> TRUE]

\* stop() after `await persist`: a rejected persist throws out of the await
\* and ends the call there; otherwise the mode setter runs, and only if it
\* returns is the 'stop' event emitted.
AfterPersist(s, outcome) ==
  IF outcome = "rejected"
  THEN [mode |-> s.mode, err |-> "PersistenceFailure", emitted |-> FALSE]
  ELSE LET s1 == ModeSetter(s, "STOPPED")
       IN [mode |-> s1.mode, err |-> s1.err, emitted |-> s1.err = NoError]

\* A suspended stop() call resumes.  After `await persist` the call either
\* ends rejected or suspends again on the listeners' work; after
\* `await emit` it resolves.
StopResume(i) ==
  /\ i \in 1..Len(stops)
  /\ stops[i].pc \in {"awaitPersist", "awaitListeners"}
  /\ hooks' = <<>>
  /\ result' = [op |-> "stopResume", err |-> NoError]
  /\ IF stops[i].pc = "awaitListeners"
     THEN /\ stops' = [stops EXCEPT ![i].pc = "resolved"]
          /\ UNCHANGED << mode, stopEvents >>
     ELSE \E outcome \in IF stops[i].persist = "pending"
                         THEN {"resolved", "rejected"} ELSE {"none"} :
            LET r == AfterPersist(Cur, outcome)
            IN /\ mode' = r.mode
               /\ stopEvents' = IF r.emitted THEN stopEvents + 1 ELSE stopEvents
               /\ stops' = [stops EXCEPT
                    ![i].pc = IF r.emitted THEN "awaitListeners" ELSE "rejected",
                    ![i].persist = outcome,
                    ![i].err = r.err,
                    ![i].trace = IF r.emitted THEN @ \o <<"setMode", "emitStop">> ELSE @]
  /\ UNCHANGED << cfgAdapters, cfgPersister, paused, container, adapters,
                  instances, persister, requests, loggerDisconnects,
                  persistCalls, flushes, Registry >>

\* The instance's own fields, which the request tracker never writes.
Fields ==
  << mode, cfgAdapters, cfgPersister, paused, container, adapters, instances,
     persister >>

\* The promise of a registered request settles: the adapter resolves or
\* rejects it.
SettleRequest(k, outcome) ==
  /\ k \in 1..Len(requests)
  /\ requests[k] = "pending"
  /\ requests' = [requests EXCEPT ![k] = outcome]
  /\ hooks' = <<>>
  /\ result' = [op |-> "settle", err |-> NoError]
  /\ UNCHANGED << Fields, loggerDisconnects, persistCalls, stopEvents, stops,
                  flushes, Registry >>

\* A .then() with a fulfilment handler only: a rejection passes through.
ThenNoopOnFulfil(p) == p

\* Promise.resolve(r.promise).then(NOOP, NOOP): fulfilled once r.promise has
\* settled either way, pending until then.
ThenNoop(p) == IF p = "pending" THEN "pending" ELSE "resolved"

\* A combinator that settles with the first promise that settles.
PromiseRace(ps) ==
  IF ps = <<>> THEN "resolved"
  ELSE IF \E k \in 1..Len(ps) : ps[k] = "rejected" THEN "rejected"
  ELSE IF \E k \in 1..Len(ps) : ps[k] = "resolved" THEN "resolved"
  ELSE "pending"

\* Promise.all(ps): rejected as soon as one is rejected, fulfilled when all
\* are fulfilled (at once for an empty list), pending otherwise.
PromiseAll(ps) ==
  IF \E k \in 1..Len(ps) : ps[k] = "rejected" THEN "rejected"
  ELSE IF \E k \in 1..Len(ps) : ps[k] = "pending" THEN "pending"
  ELSE "resolved"

\* The promise a flush() call awaits: this._requests.map(...) ran at call
\* time over the `covers` requests registered by then.
FlushAwaits(covers) ==
  PromiseAll([k \in 1..covers |-> ThenNoop(requests[k])])

\* flush(), up to its await.
Flush ==
  /\ Len(flushes) < MaxFlushes
  /\ flushes' = Append(flushes, [covers |-> Len(requests), pc |-> "awaiting"])
  /\ hooks' = <<>>
  /\ result' = [op |-> "flush", err |-> NoError]
  /\ UNCHANGED << Fields, requests, loggerDisconnects, persistCalls, stopEvents,
                  stops, Registry >>

\* A suspended flush() call resumes once the promise it awaits has settled,
\* and settles the same way.
FlushResume(i) ==
  /\ i \in 1..Len(flushes)
  /\ flushes[i].pc = "awaiting"
  /\ FlushAwaits(flushes[i].covers) # "pending"
  /\ flushes' = [flushes EXCEPT ![i].pc = FlushAwaits(flushes[i].covers)]
  /\ hooks' = <<>>
  /\ result' = [op |-> "flushResume", err |-> NoError]
  /\ UNCHANGED << Fields, requests, loggerDisconnects, persistCalls, stopEvents,
                  stops, Registry >>

\* ------------------------------------------------- static registration

\* EVENT_EMITTER.emitSync('register', container): every subscribed callback
\* runs container.register(Factory) on the container it is handed.
EmitRegister(c, subs) ==
  UNION ({c} \cup { ContainerRegister(c, f) : f \in { g \in Factories : subs[g] > 0 } })

\* Polly.register(Factory): the callback is memoized once per factory and
\* subscribed on every call.
StaticRegister(f) ==
  /\ subscriptions[f] < MaxSubscriptions
  /\ memo' = memo \cup {f}
  /\ subscriptions' = [subscriptions EXCEPT ![f] = @ + 1]
  /\ hooks' = <<>>
  /\ result' = [op |-> "register", err |-> NoError]
  /\ UNCHANGED << Fields, requests, loggerDisconnects, persistCalls, stopEvents,
                  stops, flushes, built >>

\* Polly.unregister(Factory): off() is called only for a memoized factory.
\* The emitter is not told which of several subscriptions of one callback to
\* drop: off() removes one of them or all of them.
StaticUnregister(f) ==
  /\ IF f \in memo /\ subscriptions[f] > 0
     THEN \E n \in {1, subscriptions[f]} :
            subscriptions' = [subscriptions EXCEPT ![f] = @ - n]
     ELSE UNCHANGED subscriptions
  /\ hooks' = <<>>
  /\ result' = [op |-> "unregister", err |-> NoError]
  /\ UNCHANGED << Fields, requests, loggerDisconnects, persistCalls, stopEvents,
                  stops, flushes, memo, built >>

\* A constructor that configures before it fires 'register'.
NewPollyEmitsLate(subs, cfg) ==
  LET r == ConfigureOp(Fresh({}, cfg), cfg)
  IN [ seeded |-> {}, container |-> EmitRegister(r.container, subs),
       err |-> r.err ]

\* new Polly(name, cfg): a new container, the 'register' event on it, then
\* configure(cfg).  `seeded` is the container when configure() is entered.
NewPolly(subs, cfg) ==
  LET c0 == EmitRegister({}, subs)
      r == ConfigureOp(Fresh(c0, cfg), cfg)
  IN [ seeded |-> c0, container |-> r.container, err |-> r.err ]

\* The configurations later instances are constructed with.
BuiltConfigs ==
  { cfg \in ConfigInputs : /\ cfg.mode = Absent
                           /\ cfg.adapters \in {<<>>, << <<ByName("a")>> >>}
                           /\ cfg.persister = NoPersister }

\* Constructing another instance.
Construct(cfg) ==
  /\ Len(built) < MaxBuilt
  /\ built' = Append(built, NewPolly(subscriptions, cfg))
  /\ hooks' = <<>>
  /\ result' = [op |-> "construct", err |-> NewPolly(subscriptions, cfg).err]
  /\ UNCHANGED << Fields, requests, loggerDisconnects, persistCalls, stopEvents,
                  stops, flushes, memo, subscriptions >>


\* Every operation, with every input.
Next ==
  \/ \E cfg \in ConfigInputs : Configure(cfg)
  \/ \E nf \in NameOrFactoryInputs : ConnectToCall(nf)
  \/ \E nf \in NameOrFactoryInputs : DisconnectFromCall(nf)
  \/ DisconnectCall
  \/ \E m \in ModeInputs : SetMode(m)
  \/ Record
  \/ Replay
  \/ Pause
  \/ Play
  \/ RegisterRequest
  \/ Stop
  \/ \E i \in 1..MaxStops : StopResume(i)
  \/ \E k \in 1..MaxRequests, o \in {"resolved", "rejected"} : SettleRequest(k, o)
  \/ Flush
  \/ \E i \in 1..MaxFlushes : FlushResume(i)
  \/ \E f \in Factories : StaticRegister(f)
  \/ \E f \in Factories : StaticUnregister(f)
  \/ \E cfg \in BuiltConfigs : Construct(cfg)

Spec == Init /\ [][Next]_vars

\* The mode and shutdown operations.  No method reads the adapter collection
\* to decide a mode, a snapshot or a shutdown step, so the instance starts
\* with no adapter configured and configure() leaves the adapter list alone.
LifecycleConfigs == { cfg \in ConfigInputs : cfg.adapters = <<>> }

InitLifecycle == Init /\ cfgAdapters = <<>>

NextLifecycle ==
  \/ \E cfg \in LifecycleConfigs : Configure(cfg)
  \/ \E m \in ModeInputs : SetMode(m)
  \/ Record
  \/ Replay
  \/ Pause
  \/ Play
  \/ RegisterRequest
  \/ Stop
  \/ \E i \in 1..MaxStops : StopResume(i)

SpecLifecycle == InitLifecycle /\ [][NextLifecycle]_vars

\* The adapter operations, with the operations that disconnect adapters
\* (configure, stop) or block configure (registerRequest, a STOPPED mode).
\* A persister never touches the adapter collection, so none is configured:
\* stop() still suspends on its await.
AdapterConfigs ==
  { cfg \in ConfigInputs : cfg.mode \in {Absent, "STOPPED"} /\ cfg.persister = NoPersister }

NextAdapters ==
  \/ \E cfg \in AdapterConfigs : Configure(cfg)
  \/ \E nf \in NameOrFactoryInputs : ConnectToCall(nf)
  \/ \E nf \in NameOrFactoryInputs : DisconnectFromCall(nf)
  \/ DisconnectCall
  \/ RegisterRequest
  \/ Stop
  \/ \E i \in 1..MaxStops : StopResume(i)

InitAdapters == Init /\ mode = "REPLAY" /\ persister = "null"

SpecAdapters == InitAdapters /\ [][NextAdapters]_vars

\* The request tracker: registerRequest(), the settling of requests and
\* flush().  flush() reads only this._requests, which only registerRequest()
\* writes, so the instance has no adapter and its other methods are not called.
InitRequests == Init /\ cfgAdapters = <<>> /\ mode = "REPLAY" /\ persister = "null"

NextRequests ==
  \/ RegisterRequest
  \/ \E k \in 1..MaxRequests, o \in {"resolved", "rejected"} : SettleRequest(k, o)
  \/ Flush
  \/ \E i \in 1..MaxFlushes : FlushResume(i)

SpecRequests == InitRequests /\ [][NextRequests]_vars

\* The event loop runs the continuation of a flush() call once the promise
\* it awaits has settled.
SpecRequestsFair ==
  SpecRequests /\ \A i \in 1..MaxFlushes : WF_vars(FlushResume(i))

\* stop() and flush() on one instance, with the requests and the persist
\* operation settling in any order.
InitShutdown == Init /\ cfgAdapters = <<>> /\ mode = "REPLAY"

NextShutdown ==
  \/ RegisterRequest
  \/ \E k \in 1..MaxRequests, o \in {"resolved", "rejected"} : SettleRequest(k, o)
  \/ Flush
  \/ \E i \in 1..MaxFlushes : FlushResume(i)
  \/ Stop
  \/ \E i \in 1..MaxStops : StopResume(i)

SpecShutdown == InitShutdown /\ [][NextShutdown]_vars

\* ---------------------------------------------------------------- claims

\* Static registration and the instances constructed under it.  The first
\* instance only stands by: no static call reads or writes its fields.
InitRegistry ==
  Init /\ cfgAdapters = <<>> /\ mode = "REPLAY" /\ persister = "null"

NextRegistry ==
  \/ \E f \in Factories : StaticRegister(f)
  \/ \E f \in Factories : StaticUnregister(f)
  \/ \E cfg \in BuiltConfigs : Construct(cfg)

SpecRegistry == InitRegistry /\ [][NextRegistry]_vars

StopCalls == 1..Len(stops)

\* C1: once the mode is STOPPED, no record(), replay(), pause(), play(),
\* mode-setter call, configure() or stop() makes it anything else.
C1_StoppedIsTerminal == [][mode = "STOPPED" => mode' = "STOPPED"]_vars

\* C1 witness: play() was called on a STOPPED instance holding a snapshot of
\* another mode.
C1_Witness ==
  /\ mode = "STOPPED"
  /\ result.op = "play"
  /\ paused \notin {Undefined, "STOPPED"}

\* C2 as stated: after a stop() call whose persist failed, the mode is STOPPED.
C2_FlipsDespiteFailure ==
  \A i \in StopCalls : stops[i].err = "PersistenceFailure" => mode = "STOPPED"

\* C2 amended: when the persist of a stop() call fails, the failure is
\* propagated to the caller and that call leaves the mode as it was: it
\* neither sets STOPPED nor broadcasts the stop event.
C2_FailureSkipsFlip ==
  [][\A i \in StopCalls :
       (stops[i].pc = "awaitPersist" /\ stops'[i].persist = "rejected")
         => /\ stops'[i].pc = "rejected"
            /\ stops'[i].err = "PersistenceFailure"
            /\ mode' = mode
            /\ stopEvents' = stopEvents]_vars

\* C2 witness: a stop() call on a non-stopped instance was rejected with the
\* persist failure, and the mode is not STOPPED.
C2_Witness ==
  \E i \in StopCalls :
    /\ stops[i].pc = "rejected"
    /\ stops[i].err = "PersistenceFailure"
    /\ mode # "STOPPED"

\* C3 as stated: whatever stop() calls were issued, the logger disconnect,
\* the persist operation and the stop-event broadcast each happened at most
\* once in total.
C3_SideEffectsOnce ==
  /\ loggerDisconnects <= 1
  /\ persistCalls <= 1
  /\ stopEvents <= 1

\* C4 as stated: a stop() call on a non-stopped instance whose persist has
\* completed has gone on to set the mode and broadcast the stop event, in the
\* order disconnect, logger disconnect, persist, mode flip, broadcast.
C4_PhasesInOrder ==
  \A i \in StopCalls :
    (stops[i].trace # <<>> /\ stops[i].persist \in {"resolved", "none"}
       /\ stops[i].pc # "awaitPersist")
      => /\ stops[i].pc \in {"awaitListeners", "resolved"}
         /\ stops[i].trace \in
              { <<"disconnect", "loggerDisconnect", "persist", "setMode", "emitStop">>,
                <<"disconnect", "loggerDisconnect", "setMode", "emitStop">> }

\* C5: the request sequence never shrinks, and a configure() call made while
\* a request is registered or while the mode is STOPPED throws the
\* validation error.
C5_ConfigureRejected ==
  [][/\ Len(requests') >= Len(requests)
     /\ (result'.op = "configure" /\ (requests # <<>> \/ mode = "STOPPED"))
          => result'.err = "ValidationError"]_vars

\* C5 witness: configure() threw the validation error on an instance that is
\* not stopped and has a registered request.
C5_Witness ==
  /\ result = [op |-> "configure", err |-> "ValidationError"]
  /\ requests # <<>>
  /\ mode # "STOPPED"

InstanceIds == 1..Len(instances)

\* An adapter instance is active from its construction, when its connect hook
\* runs, until its disconnect hook runs.
Active(id) == instances[id].disconnects = 0

InCollection(id) == \E i \in 1..Len(adapters) : adapters[i].id = id

\* C6: no adapter identifier ever has two active instances, and within a call
\* the connect hook of a new instance runs only after the disconnect hook of
\* every earlier instance of the same identifier.
C6_OneActivePerName ==
  /\ \A n \in AdapterNames :
       Cardinality({id \in InstanceIds : instances[id].name = n /\ Active(id)}) <= 1
  /\ \A j \in 1..Len(hooks) :
       hooks[j].op = "connect" =>
         \A old \in 1..(hooks[j].id - 1) :
           instances[old].name = instances[hooks[j].id].name =>
             /\ ~Active(old)
             /\ \A k \in 1..Len(hooks) :
                  (hooks[k].op = "disconnect" /\ hooks[k].id = old) => k < j

\* C6 witness: a call disconnected an instance and then connected a newer
\* instance under the same identifier.
C6_Witness ==
  \E k, j \in 1..Len(hooks) :
    /\ k < j
    /\ hooks[k].op = "disconnect"
    /\ hooks[j].op = "connect"
    /\ instances[hooks[k].id].name = instances[hooks[j].id].name

\* C7: a connectTo(X) that succeeds while an instance is connected under X
\* stores a new instance under X in place of the old one and runs the old
\* one's disconnect hook once; and in every later step a disconnect hook that
\* has run once never runs again, the instances in the collection being
\* exactly those whose hook has not run.
C7_ReplacedDisconnectedOnce ==
  [][/\ \A i \in 1..Len(adapters) :
          (result'.op = "connectTo" /\ result'.err = NoError
             /\ instances'[Len(instances')].name = adapters[i].name
             /\ Len(instances') = Len(instances) + 1)
            => /\ instances'[adapters[i].id].disconnects = 1
               /\ \A e \in 1..Len(adapters') :
                    adapters'[e].name = adapters[i].name
                      => adapters'[e].id = Len(instances') /\ adapters'[e].id # adapters[i].id
               /\ \E e \in 1..Len(adapters') : adapters'[e].name = adapters[i].name
     /\ \A id \in InstanceIds :
          instances[id].disconnects = 1 => instances'[id].disconnects = 1
     /\ \A id \in 1..Len(instances') :
          instances'[id].disconnects = IF InCollection(id)' THEN 0 ELSE 1]_vars

\* C7 witness: an instance was replaced by a newer one under its identifier,
\* and a later disconnect() disconnected the newer one.
C7_Witness ==
  /\ result.op = "disconnect"
  /\ hooks # <<>>
  /\ \E old, new \in InstanceIds :
       /\ old < new
       /\ instances[old].name = instances[new].name
       /\ instances[old].disconnects = 1
       /\ instances[new].disconnects = 1
       /\ \E k \in 1..Len(hooks) : hooks[k].id = new

\* C8: disconnect() empties the collection and runs the disconnect hook of
\* each adapter that was connected once, in the collection's insertion order,
\* and runs no other hook.
C8_DisconnectAll ==
  [][result'.op = "disconnect" =>
       /\ adapters' = <<>>
       /\ hooks' = [i \in 1..Len(adapters) |-> [op |-> "disconnect", id |-> adapters[i].id]]
       /\ \A id \in InstanceIds :
            instances'[id].disconnects =
              instances[id].disconnects + (IF InCollection(id) THEN 1 ELSE 0)]_vars

\* C8 witness: disconnect() was called with two adapters connected.
C8_Witness ==
  /\ result.op = "disconnect"
  /\ Len(hooks) = 2
  /\ adapters = <<>>

\* C9 as stated: a play() that directly follows a pause() succeeds, sets the
\* mode to the one the pause() saved and clears the snapshot.
C9_PauseThenPlay ==
  [][(result.op = "pause" /\ result'.op = "play")
       => /\ result'.err = NoError
          /\ mode' = paused
          /\ paused' = Undefined]_vars

\* C10 as stated: in a state a pause() has produced, one more pause() leaves
\* the snapshot holding PASSTHROUGH.
C10_SecondPauseSavesPassthrough ==
  result.op = "pause" => PauseOp(Cur).paused = "PASSTHROUGH"

FlushCalls == 1..Len(flushes)

\* The requests registered before flush() call i have all settled.
CoveredSettled(i) == \A k \in 1..flushes[i].covers : requests[k] # "pending"

\* C11: a flush() call awaits exactly the requests registered when it was
\* called: it resolves only once all of them have settled, and once they have
\* it can resume, whatever requests were registered later.
C11_FlushCoversSnapshot ==
  [][\A i \in 1..Len(flushes') :
       /\ i > Len(flushes) => flushes'[i].covers = Len(requests)
       /\ i <= Len(flushes) => flushes'[i].covers = flushes[i].covers
       /\ flushes'[i].pc = "resolved" => CoveredSettled(i)'
       /\ (flushes'[i].pc = "awaiting" /\ CoveredSettled(i)')
            => (ENABLED FlushResume(i))']_vars

\* C11 witness: a flush() call that covered a request has resolved while a
\* request registered after the call is still pending.
C11_Witness ==
  \E i \in FlushCalls :
    /\ flushes[i].pc = "resolved"
    /\ flushes[i].covers >= 1
    /\ Len(requests) > flushes[i].covers
    /\ requests[Len(requests)] = "pending"

\* C12: no flush() call is ever rejected, and a flush() call whose covered
\* requests have all settled, by success or failure, eventually resolves.
C12_FlushResolves ==
  \A i \in 1..MaxFlushes :
    /\ [](i \in FlushCalls => flushes[i].pc # "rejected")
    /\ (i \in FlushCalls /\ CoveredSettled(i))
         ~> (i \in FlushCalls /\ flushes[i].pc = "resolved")

\* C12 witness: a flush() call has resolved although a request it covered
\* was rejected.
C12_Witness ==
  \E i \in FlushCalls :
    /\ flushes[i].pc = "resolved"
    /\ \E k \in 1..flushes[i].covers : requests[k] = "rejected"


\* C13: in every reachable state the stored mode is one of the canonical
\* values, and an assignment through the mode setter either succeeds or
\* fails with a validation error.
C13_StoredModeCanonical ==
  /\ mode \in Modes
  /\ result.op = "setMode" => result.err \in {NoError, "ValidationError"}

\* C14: the mode becomes STOPPED only in the step that resumes a stop() call
\* after its persist.
C14_StoppedOnlyByStop ==
  [][(mode # "STOPPED" /\ mode' = "STOPPED") => result'.op = "stopResume"]_vars


\* C15: an instance constructed while a factory is registered has the factory
\* in its container when its initial configure() is entered and afterwards;
\* no later step, static unregister() included, changes the container of an
\* instance that already exists.
C15_RegisteredSeedsLaterInstances ==
  [][/\ \A i \in 1..Len(built) : built'[i] = built[i]
     /\ container' = container
     /\ Len(built') > Len(built) =>
          \A f \in Factories :
            subscriptions[f] > 0 =>
              /\ Key(f.type, f.name) \in built'[Len(built')].seeded
              /\ Key(f.type, f.name) \in built'[Len(built')].container]_vars

\* An instance built while adapter b was registered still has it after b was
\* unregistered, and an instance built after that does not.
C15_Witness ==
  /\ Len(built) = 2
  /\ subscriptions[AdapterFactory("b")] = 0
  /\ result.op = "construct"
  /\ Key("adapter", "b") \in built[1].seeded
  /\ Key("adapter", "b") \notin built[2].container


\* The connect hooks among a call's hooks, in the order they ran.
Connects(hs) == SelectSeq(hs, LAMBDA h : h.op = "connect")

\* C16: a configure() that succeeds first runs the disconnect hook of every
\* adapter connected before the call, in insertion order, then connects the
\* adapters of the merged list in list order; afterwards the connected
\* identifiers are exactly those of the merged list.
C16_ConfigureReconnects ==
  [][(result'.op = "configure" /\ result'.err = NoError) =>
       /\ Len(hooks') >= Len(adapters)
       /\ \A i \in 1..Len(adapters) :
            hooks'[i] = [op |-> "disconnect", id |-> adapters[i].id]
       /\ \A j \in 1..Len(hooks') :
            hooks'[j].op = "connect" => j > Len(adapters)
       /\ Len(Connects(hooks')) = Len(cfgAdapters')
       /\ \A i \in 1..Len(cfgAdapters') :
            instances'[Connects(hooks')[i].id].name = cfgAdapters'[i].name
       /\ { adapters'[i].name : i \in 1..Len(adapters') }
            = { cfgAdapters'[i].name : i \in 1..Len(cfgAdapters') }]_vars

\* C16 witness: a configure() succeeded that disconnected adapter b, which the
\* merged list does not name, and connected the list's adapter.
C16_Witness ==
  /\ result = [op |-> "configure", err |-> NoError]
  /\ adapters # <<>>
  /\ \A i \in 1..Len(adapters) : adapters[i].name # "b"
  /\ \E k \in 1..Len(hooks) :
       hooks[k].op = "disconnect" /\ instances[hooks[k].id].name = "b"

\* C17: connectTo(name) with a name whose adapter factory is not registered
\* throws a lookup error, runs no hook and leaves the collection, the
\* instances and the container as they were.
C17_ConnectToUnregistered ==
  [][\A nf \in NameOrFactoryInputs :
       (nf.kind = "name" /\ Key("adapter", nf.name) \notin container
          /\ ConnectToCall(nf))
         => /\ result' = [op |-> "connectTo", err |-> "LookupError"]
            /\ hooks' = <<>>
            /\ adapters' = adapters
            /\ instances' = instances
            /\ container' = container]_vars

\* C17 witness: connectTo of an unregistered name failed while an adapter was
\* connected.
C17_Witness ==
  /\ result = [op |-> "connectTo", err |-> "LookupError"]
  /\ Key("adapter", "b") \notin container
  /\ adapters # <<>>


\* C20: a configure() call made while a request is registered or while the
\* mode is STOPPED runs no hook and leaves the adapters, their instances, the
\* resolved configuration with its mode, the persister, the paused snapshot,
\* the container and the request sequence as they were.
C20_RejectedConfigureNoEffect ==
  [][(result'.op = "configure" /\ (requests # <<>> \/ mode = "STOPPED"))
         => /\ hooks' = <<>>
            /\ adapters' = adapters
            /\ instances' = instances
            /\ << mode', cfgAdapters', cfgPersister' >> = << mode, cfgAdapters, cfgPersister >>
            /\ persister' = persister
            /\ paused' = paused
            /\ container' = container
            /\ requests' = requests]_vars

\* C20 witness: configure() was rejected on a stopped instance that has an
\* adapter connected.
C20_Witness ==
  /\ result = [op |-> "configure", err |-> "ValidationError"]
  /\ mode = "STOPPED"
  /\ adapters # <<>>


\* C18 as stated: a stop() call whose persist has completed has set the mode
\* to STOPPED and broadcast the stop event also while a tracked request is
\* unsettled; and a flush() call whose requests have all settled
\* can resume, whether or not a stop() call is still awaiting its persist.
C18_StopAndFlushIndependent ==
  /\ \A i \in StopCalls :
       (stops[i].trace # <<>> /\ stops[i].pc # "awaitPersist"
          /\ stops[i].persist \in {"resolved", "none"}
          /\ \E k \in 1..Len(requests) : requests[k] = "pending")
         => mode = "STOPPED" /\ stopEvents >= 1
  /\ \A i \in FlushCalls :
       (flushes[i].pc = "awaiting" /\ CoveredSettled(i)) => ENABLED FlushResume(i)

\* C19 as stated: while the mode is STOPPED the adapter collection is empty
\* and no adapter instance is active.
C19_StoppedHasNoAdapters ==
  mode = "STOPPED" =>
    /\ adapters = <<>>
    /\ \A id \in InstanceIds : ~Active(id)

====
